---- MODULE Spec2Model ----
(***************************************************************************)
(* Model of genre_classification_project.ipynb: random-mapping index       *)
(* vectors, context-vector aggregation, the 30/70 split and the nearest-   *)
(* centroid classifier pairwise_distance.                                  *)
(*                                                                         *)
(* One action per notebook cell.  The corpus reader (nltk brown) is an     *)
(* input: a list of documents per category, each a list of words.          *)
(* Spec runs the cells in order for one configuration; SpecConfig runs the *)
(* construction loop for any configuration; SpecAgg applies the            *)
(* aggregation loop to any token sequence and index-vector mapping;        *)
(* SpecDist applies cosine_dist to any two vectors; SpecCluster runs part  *)
(* 1 up to the clustering cell, with nltk's KMeansClusterer modelled as    *)
(* the cell configures it.                                                 *)
(* Vectors are sequences indexed 1..d (Python position i is index i+1).    *)
(* Floating point is modelled by exact real arithmetic: a unit vector is   *)
(* kept as v / sqrt(s) and a cosine distance 1 - c as the reduced fraction *)
(* of c^2 (all components are non-negative, so c >= 0).                    *)
(***************************************************************************)
EXTENDS Integers, Sequences, FiniteSets, TLC

\* ------------------------------------------------------------------ bounds
\* The run's dimension and sparsity count (d = 200 and m = 5 in the notebook).
Dim == 2
Sparsity == 1
\* The configurations tried for the construction loop and the aggregator alone.
MaxD == 2
MaxM == 2
MaxDocs == 5
MaxTokens == 3
MaxCall == 2
\* The largest entry of a vector handed to cosine_dist alone.
MaxCount == 2
\* The clustering cell: the documents of the corpus and the clusters asked for.
MaxVectors == 3
MaxK == 3

\* ------------------------------------------------------------- the corpus
\* Raw words of the corpus and their lower-case forms (str.lower).
Words == {"a", "B"}

lower(w) == IF w = "B" THEN "b" ELSE w

Terms == {lower(w) : w \in Words}

\* The texts a document of the pipeline's corpus may hold.
DocTexts == {<<>>, <<"a">>, <<"B">>}

all_genres == <<"fiction", "humor", "news">>

categories == <<"news", "humor">>

Range(s) == {s[i] : i \in DOMAIN s}

BoundedSeq(S, n) == UNION {[1..k -> S] : k \in 0..n}

Min(x, y) == IF x <= y THEN x ELSE y

VARIABLES
  d, m,                      \* dimension and sparsity count
  corpus,                    \* category -> list of documents (each a list of words)
  vocabulary,                \* set of lower-case terms
  index_vector,              \* term -> vector
  context_vector,            \* part 1: document -> vector
  train_genres,              \* list of genres
  test_documents,            \* list of documents
  train_documents,           \* genre -> documents whose words train the genre vector
  context_vector_document,   \* test document -> vector
  context_vector_genre,      \* genre -> vector
  docs,                      \* the docs argument of pairwise_distance
  print_pairs, min_pairs,    \* locals of pairwise_distance when it ended
  correct, incorrect,
  accuracy,                  \* the printed share correct / len(test_documents)
  pc,                        \* the next cell to run
  raised,                    \* the exception that ended the run, if any
  tokens_in, tokens_perm,    \* aggregator inputs: a token sequence and a permutation of it
  agg_out, agg_out_perm,     \* aggregator results
  agg_pc,
  vec_a, vec_b,              \* cosine_dist inputs: two vectors
  dist_ab, dist_ba,          \* cosine_dist(a, b) and cosine_dist(b, a)
  dist_pc,
  n_clusters,                \* the number of clusters asked for
  vectors,                   \* part 1: the normalized document vectors
  means,                     \* the clusterer's means when cluster() returned
  clusters,                  \* the label of each document, in the order of documents
  zipped, list_all,          \* the (document, label) pairs and their groups
  cluster_pc

vars == <<d, m, corpus, vocabulary, index_vector, context_vector, train_genres,
          test_documents, train_documents, context_vector_document,
          context_vector_genre, docs, print_pairs, min_pairs, correct,
          incorrect, accuracy, pc, raised, tokens_in, tokens_perm, agg_out,
          agg_out_perm, agg_pc, vec_a, vec_b, dist_ab, dist_ba, dist_pc,
          n_clusters, vectors, means, clusters, zipped, list_all, cluster_pc>>

dist_vars == <<vec_a, vec_b, dist_ab, dist_ba, dist_pc>>

cluster_vars == <<n_clusters, vectors, means, clusters, zipped, list_all, cluster_pc>>

\* ------------------------------------------------------ corpus reader view
\* brown.fileids(categories=genre): the documents of a genre, in order.
fileids(genre) == [i \in 1..Len(corpus[genre]) |-> <<genre, i>>]

\* brown.categories(doc)[0]: the gold-standard genre of a document.
gold(doc) == doc[1]

\* brown.words(doc)
words(doc) == corpus[doc[1]][doc[2]]

RECURSIVE Concat(_)
Concat(ss) == IF ss = <<>> THEN <<>> ELSE Head(ss) \o Concat(Tail(ss))

\* brown.words(list of documents): their words, concatenated.
words_of(fs) == Concat([i \in 1..Len(fs) |-> words(fs[i])])

\* documents = brown.fileids(categories=categories)
documents == Concat([i \in 1..Len(categories) |-> fileids(categories[i])])

\* [w.lower() for w in ws]
lowered(ws) == [i \in 1..Len(ws) |-> lower(ws[i])]

\* ------------------------------------------------------- index vectors
Zeros(n) == [i \in 1..n |-> 0]

\* The outcomes of random.shuffle(list(range(0, n))).
Shuffles(n) == {p \in [1..n -> 0..(n - 1)] : \A i, j \in 1..n : p[i] = p[j] => i = j}

Slice_from_one(s, k) == SubSeq(s, 2, Min(k, Len(s)))

\* s[:k], which stops at the end of s when k exceeds len(s).
Slice(s, k) == SubSeq(s, 1, Min(k, Len(s)))

\* for i in random_positions[:m]: index_vector[word][i] = 1
SetOnes(v, positions) == [i \in 1..Len(v) |-> IF (i - 1) \in Range(positions) THEN 1 ELSE v[i]]

\* ------------------------------------------------------------ aggregation
add_vector_assign(a, b) == [i \in 1..Len(a) |-> IF i <= Len(b) THEN b[i] ELSE a[i]]

\* for i, x in enumerate(b): a[i] += x
add_vector(a, b) == [i \in 1..Len(a) |-> IF i <= Len(b) THEN a[i] + b[i] ELSE a[i]]

add_vector_onto_b(a, b) == add_vector(b, b)

\* What add_vector(a, b) leaves in b: it reads b and assigns to a alone.
add_vector_leaves(a, b) == b

RECURSIVE aggregate_skip(_, _, _)
aggregate_skip(a, context, iv) ==
  IF context = <<>> THEN [vec |-> a, raised |-> "none", iv |-> iv]
  ELSE IF Head(context) \notin DOMAIN iv THEN aggregate_skip(a, Tail(context), iv)
  ELSE aggregate_skip(add_vector(a, iv[Head(context)]), Tail(context),
                      [iv EXCEPT ![Head(context)] = add_vector_leaves(a, @)])

\* The loop's outcome: the vector a, the index vectors iv as the calls of
\* add_vector left them, and the exception that ended it.
RECURSIVE aggregate_loop(_, _, _)
aggregate_loop(a, context, iv) ==
  IF context = <<>> THEN [vec |-> a, raised |-> "none", iv |-> iv]
  ELSE IF Head(context) \notin DOMAIN iv THEN [vec |-> a, raised |-> "KeyError", iv |-> iv]
  ELSE aggregate_loop(add_vector(a, iv[Head(context)]), Tail(context),
                      [iv EXCEPT ![Head(context)] = add_vector_leaves(a, @)])

RECURSIVE Distinct(_)
Distinct(s) ==
  IF s = <<>> THEN <<>>
  ELSE LET r == Distinct(SubSeq(s, 1, Len(s) - 1))
       IN IF s[Len(s)] \in Range(r) THEN r ELSE Append(r, s[Len(s)])

aggregate_set(a, context, iv) == aggregate_loop(a, Distinct(context), iv)

\* for word in context: add_vector(a, index_vector[word]); the lookup of a
\* word the mapping lacks raises KeyError and leaves a as it was by then.
aggregate(a, context, iv) == aggregate_loop(a, context, iv)

\* for key in keys: for word in context_of[key]: add_vector(cv[key],
\* iv[word]), one key after the other; a KeyError ends the loops.
RECURSIVE aggregate_each(_, _, _, _)
aggregate_each(keys, context_of, cv, iv) ==
  IF keys = <<>> THEN [cv |-> cv, raised |-> "none", iv |-> iv]
  ELSE LET out == aggregate(cv[Head(keys)], context_of[Head(keys)], iv)
       IN IF out.raised # "none"
          THEN [cv |-> [cv EXCEPT ![Head(keys)] = out.vec], raised |-> out.raised, iv |-> out.iv]
          ELSE aggregate_each(Tail(keys), context_of,
                              [cv EXCEPT ![Head(keys)] = out.vec], out.iv)

NoException == [exc |-> "none", at |-> "none"]

\* ------------------------------------------------------------ the split
\* int(n * 0.3): the float product truncates to (3 * n) \div 10 for n < 90.
int_03(n) == (3 * n) \div 10

\* int(n * 0.7): the float product truncates to (7 * n) \div 10 for n < 90.
int_07(n) == (7 * n) \div 10

\* s[:k] and s[k:] for 0 <= k
Prefix(s, k) == SubSeq(s, 1, Min(k, Len(s)))

Suffix_as_prefix(s, k) == SubSeq(s, 1, Min(k, Len(s)))

Suffix(s, k) == SubSeq(s, Min(k, Len(s)) + 1, Len(s))

\* ------------------------------------------------------------ vector math
RECURSIVE SumOver(_, _)
SumOver(f, n) == IF n = 0 THEN 0 ELSE f[n] + SumOver(f, n - 1)

RECURSIVE GCD(_, _)
GCD(x, y) == IF y = 0 THEN x ELSE GCD(y, x % y)

\* A vector of reals v / sqrt(s); a list of counts has s = 1.
Raw(a) == [v |-> a, s |-> 1]

\* sum(x ** 2 for x in v), times s
SumSq(v) == SumOver([i \in 1..Len(v) |-> v[i] * v[i]], Len(v))

\* vector_length(a) = 0
ZeroLength(a) == SumSq(a.v) = 0

\* The value of a call that raised ZeroDivisionError.
ZeroDivision == [exc |-> "ZeroDivisionError"]

normalize_nan(a) == [v |-> a.v, s |-> SumSq(a.v)]

\* [x / vector_length(a) for x in a]: the first division raises
\* ZeroDivisionError when the length is 0.0; an empty list has no division.
normalize(a) ==
  IF Len(a.v) = 0 THEN a
  ELSE IF ZeroLength(a) THEN ZeroDivision
  ELSE [v |-> a.v, s |-> SumSq(a.v)]

\* total of cosine_dist: the sum of a[i] * b[i] over the positions of b, times sqrt(a.s * b.s)
Total(a, b) == SumOver([i \in 1..Len(b.v) |-> a.v[i] * b.v[i]], Len(b.v))

cosine_dist_length_of_a(a, b) ==
  IF ZeroLength(a) \/ ZeroLength(b) THEN ZeroDivision
  ELSE LET n == Total(a, b) * Total(a, b)
           q == SumSq(a.v) * SumSq(a.v)
           g == GCD(n, q)
       IN [num |-> n \div g, den |-> q \div g]

\* 1 - total / (vector_length(a) * vector_length(b)), kept as the reduced
\* fraction of the squared cosine; the scales a.s and b.s cancel.
cosine_dist(a, b) ==
  IF ZeroLength(a) \/ ZeroLength(b) THEN ZeroDivision
  ELSE LET n == Total(a, b) * Total(a, b)
           q == SumSq(a.v) * SumSq(b.v)
           g == GCD(n, q)
       IN [num |-> n \div g, den |-> q \div g]

\* x < y for two cosine distances: the squared cosine of x is the larger.
DistLess(x, y) == x.num * y.den > y.num * x.den

DistLeq(x, y) == x.num * y.den >= y.num * x.den

\* ---------------------------------------------------- pairwise_distance
\* for doc in docs: for genre in genres: the pairs in the order of the loops
LoopPairs(ds, gs) ==
  [k \in 1..(Len(ds) * Len(gs)) |->
     <<ds[((k - 1) \div Len(gs)) + 1], gs[((k - 1) % Len(gs)) + 1]>>]

RECURSIVE first_loop(_, _)
first_loop(todo, acc) ==
  IF todo = <<>> THEN [pairs |-> acc, raised |-> "none"]
  ELSE LET doc == Head(todo)[1]
           genre == Head(todo)[2]
           nd == normalize(Raw(context_vector_document[doc]))
           ng == IF nd = ZeroDivision THEN nd
                 ELSE normalize(Raw(context_vector_genre[genre]))
           dist == IF ng = ZeroDivision THEN ng ELSE cosine_dist(nd, ng)
       IN IF dist = ZeroDivision THEN [pairs |-> acc, raised |-> dist.exc]
          ELSE first_loop(Tail(todo), Append(acc, <<doc, genre, dist>>))

RECURSIVE min_last(_, _)
min_last(best, rest) ==
  IF rest = <<>> THEN best
  ELSE min_last(IF DistLeq(Head(rest)[3], best[3]) THEN Head(rest) ELSE best, Tail(rest))

RECURSIVE min_scan(_, _)
min_scan(best, rest) ==
  IF rest = <<>> THEN best
  ELSE min_scan(IF DistLess(Head(rest)[3], best[3]) THEN Head(rest) ELSE best, Tail(rest))

RECURSIVE max_scan(_, _)
max_scan(best, rest) ==
  IF rest = <<>> THEN best
  ELSE max_scan(IF DistLess(best[3], Head(rest)[3]) THEN Head(rest) ELSE best, Tail(rest))

min_by_distance_last(relevant) == min_last(Head(relevant), Tail(relevant))

max_by_distance(relevant) == max_scan(Head(relevant), Tail(relevant))

\* min(relevant, key=lambda d: d[2]): the first pair of the least distance
min_by_distance(relevant) == min_scan(Head(relevant), Tail(relevant))

RECURSIVE second_loop(_, _, _)
second_loop(todo, pairs, st) ==
  IF todo = <<>> THEN st
  ELSE LET doc == Head(todo)
           relevant == SelectSeq(pairs, LAMBDA pair : pair[1] = doc)
       IN IF relevant = <<>> THEN [st EXCEPT !.raised = "ValueError"]
          ELSE LET min_distance == min_by_distance(relevant)
                   hit == min_distance[2] = gold(doc)
               IN second_loop(Tail(todo), pairs,
                    [st EXCEPT !.min_pairs = Append(@, min_distance),
                               !.correct = IF hit THEN @ + 1 ELSE @,
                               !.incorrect = IF hit THEN @ ELSE @ + 1])

\* float(correct) / len(test_documents) * 100, as the fraction it prints
share(c, ds) == [num |-> c, den |-> Len(test_documents)]

\* The statistics printed at the end, or the exception that ended the call:
\* l1 and l2 are the outcomes of the two loops.
statistics(l1, l2, acc) ==
  [print_pairs |-> l1.pairs,
   min_pairs |-> l2.min_pairs,
   correct |-> l2.correct,
   incorrect |-> l2.incorrect,
   accuracy |-> IF l1.raised = "none" /\ l2.raised = "none" /\ acc.den # 0
                THEN acc ELSE <<>>,
   raised |-> IF l1.raised # "none" THEN [exc |-> l1.raised, at |-> "normalize"]
              ELSE IF l2.raised # "none" THEN [exc |-> l2.raised, at |-> "min"]
              ELSE IF acc.den = 0 THEN [exc |-> "ZeroDivisionError", at |-> "statistics"]
              ELSE NoException]

NoneClassified == [min_pairs |-> <<>>, correct |-> 0, incorrect |-> 0, raised |-> "none"]

after_second_loop(ds, l1, l2) == statistics(l1, l2, share(l2.correct, ds))

after_first_loop(ds, l1) ==
  after_second_loop(ds, l1, IF l1.raised = "none"
                            THEN second_loop(ds, l1.pairs, NoneClassified)
                            ELSE NoneClassified)

\* The locals of pairwise_distance(ds, gs) when it returns or raises.
pairwise_distance(ds, gs) == after_first_loop(ds, first_loop(LoopPairs(ds, gs), <<>>))

\* ------------------------------------------------------ KMeansClusterer
\* nltk.cluster.KMeansClusterer as cell 43 uses it: euclidean_distance, ten
\* repeats, no normalising of its own, an error on an empty cluster.  The
\* documents clustered here hold one word each, so every unit vector is an
\* index vector over the one scale sqrt(s): a point is kept as its integer
\* vector and a mean as the sum of the points of its cluster with their
\* number n, and the scale cancels in every comparison.

\* A point taken as a mean (rng.sample picks means among the points).
AsMean(v) == [sum |-> v, n |-> 1]

\* euclidean_distance(v, mean) squared, times mean.n squared.
DistSq(v, mean) == SumSq([i \in 1..Len(v) |-> mean.n * v[i] - mean.sum[i]])

\* dist < best_distance
Nearer(v, mean, best) == DistSq(v, mean) * best.n * best.n < DistSq(v, best) * mean.n * mean.n

\* _sum_distances(means, new_means) < conv_test (1e-6): in exact arithmetic,
\* no mean moved.
SameMeans(ms, ns) ==
  \A j \in 1..Len(ms) : \A i \in 1..Len(ms[j].sum) :
     ms[j].sum[i] * ns[j].n = ns[j].sum[i] * ms[j].n

RECURSIVE classify_scan(_, _, _, _)
classify_scan(v, ms, index, best_index) ==
  IF index > Len(ms) THEN best_index
  ELSE classify_scan(v, ms, index + 1,
         IF Nearer(v, ms[index], ms[best_index]) THEN index ELSE best_index)

classify_vectorspace_from_one(v, ms) == classify_scan(v, ms, 2, 1)

\* classify_vectorspace: the index (from 0) of the first mean of least distance
classify_vectorspace(v, ms) == classify_scan(v, ms, 2, 1) - 1

\* The positions of the points assigned to the mean of index j.
Assigned(vs, ms, j) == {k \in 1..Len(vs) : classify_vectorspace(vs[k], ms) = j}

RECURSIVE SumPoints(_, _, _)
SumPoints(vs, S, n) ==
  IF S = {} THEN Zeros(n)
  ELSE LET k == CHOOSE x \in S : TRUE
       IN add_vector(SumPoints(vs, S \ {k}, n), vs[k])

\* _centroid: the mean of the points of a cluster that is not empty
centroid(vs, S) == [sum |-> SumPoints(vs, S, Len(vs[1])), n |-> Cardinality(S)]

\* _cluster_vectorspace: assign, recompute the means, until no mean moves;
\* an empty cluster fails the assertion of _centroid.
RECURSIVE lloyd(_, _)
lloyd(vs, ms) ==
  IF \E j \in 1..Len(ms) : Assigned(vs, ms, j - 1) = {}
  THEN [exc |-> "AssertionError", means |-> ms]
  ELSE LET new_means == [j \in 1..Len(ms) |-> centroid(vs, Assigned(vs, ms, j - 1))]
       IN IF SameMeans(ms, new_means) THEN [exc |-> "none", means |-> new_means]
          ELSE lloyd(vs, new_means)

\* if self._num_means < len(vectors): the loop; otherwise the means stay
cluster_trial(vs, ms) ==
  IF Len(ms) < Len(vs) THEN lloyd(vs, ms) ELSE [exc |-> "none", means |-> ms]

\* sum(mean) of one mean is at most that of another
SumLeq(a, b) == SumOver(a.sum, Len(a.sum)) * b.n <= SumOver(b.sum, Len(b.sum)) * a.n

RECURSIVE insert_by_sum(_, _)
insert_by_sum(sorted, mean) ==
  IF sorted = <<>> THEN <<mean>>
  ELSE IF SumLeq(sorted[Len(sorted)], mean) THEN Append(sorted, mean)
  ELSE Append(insert_by_sum(SubSeq(sorted, 1, Len(sorted) - 1), mean), sorted[Len(sorted)])

\* means.sort(key=sum): a stable sort
RECURSIVE sort_by_sum(_)
sort_by_sum(ms) ==
  IF ms = <<>> THEN <<>>
  ELSE insert_by_sum(sort_by_sum(SubSeq(ms, 1, Len(ms) - 1)), ms[Len(ms)])

Samples_with_repeats(n, k) == [1..k -> 1..n]

\* rng.sample(vectors, num_means): k positions of n, no position twice
Samples(n, k) == {p \in [1..k -> 1..n] : \A i, j \in 1..k : p[i] = p[j] => i = j}

\* [self.classify(vector) for vector in vectors]
cluster_labels(vs, ms) == [k \in 1..Len(vs) |-> classify_vectorspace(vs[k], ms)]

\* The means kept of the repeats, sorted, and the labels they give.
cluster_with(vs, trial, ms) ==
  [raised |-> trial.exc,
   means |-> ms,
   clusters |-> IF trial.exc = "none" THEN cluster_labels(vs, ms) ELSE <<>>]

cluster_sorted(vs, trial) == cluster_with(vs, trial, sort_by_sum(trial.means))

\* clusterer.cluster(vectors, assign_clusters=True) when the repeat whose
\* means are kept drew the positions p: every repeat's means are the
\* outcome of one sample, and the means of any sample can be the ones kept.
cluster(vs, p) == cluster_sorted(vs, cluster_trial(vs, [j \in 1..Len(p) |-> AsMean(vs[p[j]])]))

\* ------------------------------------------------------------------ cells
PipelineIdle ==
  /\ tokens_in = <<>> /\ tokens_perm = <<>>
  /\ agg_out = <<>> /\ agg_out_perm = <<>> /\ agg_pc = "off"

DistIdle ==
  /\ vec_a = <<>> /\ vec_b = <<>>
  /\ dist_ab = <<>> /\ dist_ba = <<>> /\ dist_pc = "off"

ClusterIdle ==
  /\ vectors = <<>> /\ means = <<>> /\ clusters = <<>>
  /\ zipped = <<>> /\ list_all = <<>>

\* The notebook before its first cell, for a dimension of Ds, a count of Ms
\* and a corpus of N documents at most.
InitCells(Ds, Ms, N) ==
  /\ d \in Ds
  /\ m \in Ms
  /\ \E n1 \in 0..N : \E n2 \in 0..(N - n1) :
       \E t1 \in [1..n1 -> DocTexts], t2 \in [1..n2 -> DocTexts] :
          corpus = (categories[1] :> t1) @@ (categories[2] :> t2)
  /\ vocabulary = {}
  /\ index_vector = <<>>
  /\ context_vector = <<>>
  /\ train_genres = <<>>
  /\ test_documents = <<>>
  /\ train_documents = <<>>
  /\ context_vector_document = <<>>
  /\ context_vector_genre = <<>>
  /\ docs = <<>>
  /\ print_pairs = <<>> /\ min_pairs = <<>>
  /\ correct = 0 /\ incorrect = 0
  /\ accuracy = <<>>
  /\ pc = "cell39"
  /\ raised = NoException
  /\ PipelineIdle
  /\ DistIdle
  /\ ClusterIdle

\* The run of the classifier: the clustering cell is not run.
InitWith(Ds, Ms) ==
  /\ InitCells(Ds, Ms, MaxDocs)
  /\ n_clusters = 0
  /\ cluster_pc = "off"

Init == InitWith({Dim}, {Sparsity})

\* text = brown.words(categories=categories); vocabulary = its lower-case set
Cell39 ==
  /\ pc = "cell39"
  /\ vocabulary' = Range(lowered(words_of(documents)))
  /\ pc' = "cell40"
  /\ UNCHANGED <<d, m, corpus, index_vector, context_vector, train_genres,
                 test_documents, train_documents, context_vector_document,
                 context_vector_genre, docs, print_pairs, min_pairs, correct,
                 incorrect, accuracy, raised, tokens_in, tokens_perm, agg_out,
                 agg_out_perm, agg_pc>>
  /\ UNCHANGED <<dist_vars, cluster_vars>>

\* The index-vector construction loop: one shuffle per word.
Cell40 ==
  /\ pc = "cell40"
  /\ \E shuffle \in [vocabulary -> Shuffles(d)] :
       index_vector' = [word \in vocabulary |->
                          SetOnes(Zeros(d), Slice(shuffle[word], m))]
  /\ context_vector' = [doc \in Range(documents) |-> Zeros(d)]
  /\ pc' = "cell41"
  /\ UNCHANGED <<d, m, corpus, vocabulary, train_genres,
                 test_documents, train_documents, context_vector_document,
                 context_vector_genre, docs, print_pairs, min_pairs, correct,
                 incorrect, accuracy, raised, tokens_in, tokens_perm, agg_out,
                 agg_out_perm, agg_pc>>
  /\ UNCHANGED <<dist_vars, cluster_vars>>

\* Part 1: every document's context vector.
Cell41 ==
  /\ pc = "cell41"
  /\ \E out \in {aggregate_each(documents,
                                [doc \in Range(documents) |-> lowered(words(doc))],
                                context_vector, index_vector)} :
        /\ context_vector' = out.cv
        /\ index_vector' = out.iv
        /\ raised' = IF out.raised # "none"
                     THEN [exc |-> out.raised, at |-> "index_vector[word]"]
                     ELSE raised
        /\ pc' = IF out.raised # "none" THEN "raised" ELSE "cell44"
  /\ UNCHANGED <<d, m, corpus, vocabulary, train_genres,
                 test_documents, train_documents, context_vector_document,
                 context_vector_genre, docs, print_pairs, min_pairs, correct,
                 incorrect, accuracy, tokens_in, tokens_perm, agg_out,
                 agg_out_perm, agg_pc>>
  /\ UNCHANGED <<dist_vars, cluster_vars>>

\* train_genres, and the first int(n * 0.3) documents of each genre as the test set
Cell44 ==
  /\ pc = "cell44"
  /\ LET tg == SelectSeq(all_genres, LAMBDA genre : genre \in Range(categories))
     IN /\ train_genres' = tg
        /\ test_documents' =
             Concat([k \in 1..Len(tg) |->
                       Prefix(fileids(tg[k]), int_03(Len(fileids(tg[k]))))])
  /\ pc' = "cell45"
  /\ UNCHANGED <<d, m, corpus, vocabulary, index_vector, context_vector,
                 train_documents, context_vector_document,
                 context_vector_genre, docs, print_pairs, min_pairs, correct,
                 incorrect, accuracy, raised, tokens_in, tokens_perm, agg_out,
                 agg_out_perm, agg_pc>>
  /\ UNCHANGED <<dist_vars, cluster_vars>>

\* The genre loop of cell 45, after the document loop ended as outd.
genre_loop(td, outd) ==
  IF outd.raised # "none"
  THEN [cv |-> [genre \in Range(train_genres) |-> Zeros(d)],
        raised |-> outd.raised, iv |-> outd.iv]
  ELSE aggregate_each(train_genres,
                      [genre \in Range(train_genres) |-> lowered(words_of(td[genre]))],
                      [genre \in Range(train_genres) |-> Zeros(d)], outd.iv)

\* The context vectors of the test documents and of the genres.
Cell45 ==
  /\ pc = "cell45"
  /\ \E td \in {[genre \in Range(train_genres) |->
                    Suffix(fileids(genre), int_07(Len(fileids(genre))))]} :
       \E outd \in {aggregate_each(test_documents,
                                   [doc \in Range(test_documents) |-> lowered(words(doc))],
                                   [doc \in Range(test_documents) |-> Zeros(d)],
                                   index_vector)} :
          \E outg \in {genre_loop(td, outd)} :
             /\ train_documents' = td
             /\ context_vector_document' = outd.cv
             /\ context_vector_genre' = outg.cv
             /\ index_vector' = outg.iv
             /\ raised' = IF outg.raised # "none"
                          THEN [exc |-> outg.raised, at |-> "index_vector[word]"]
                          ELSE raised
             /\ pc' = IF outg.raised # "none" THEN "raised" ELSE "cell48"
  /\ UNCHANGED <<d, m, corpus, vocabulary, context_vector,
                 train_genres, test_documents, docs, print_pairs, min_pairs,
                 correct, incorrect, accuracy, tokens_in, tokens_perm, agg_out,
                 agg_out_perm, agg_pc>>
  /\ UNCHANGED <<dist_vars, cluster_vars>>

\* The arguments pairwise_distance is called with: the test set, or any
\* short list of test documents.
CallDocs == {test_documents} \cup BoundedSeq(Range(test_documents), MaxCall)

\* pairwise_distance(docs, train_genres)
Cell48 ==
  /\ pc = "cell48"
  /\ \E ds \in CallDocs :
       \E out \in {pairwise_distance(ds, train_genres)} :
          /\ docs' = ds
          /\ print_pairs' = out.print_pairs
          /\ min_pairs' = out.min_pairs
          /\ correct' = out.correct
          /\ incorrect' = out.incorrect
          /\ accuracy' = out.accuracy
          /\ raised' = out.raised
          /\ pc' = IF out.raised = NoException THEN "done" ELSE "raised"
  /\ UNCHANGED <<d, m, corpus, vocabulary, index_vector, context_vector,
                 train_genres, test_documents, train_documents,
                 context_vector_document, context_vector_genre, tokens_in,
                 tokens_perm, agg_out, agg_out_perm, agg_pc>>
  /\ UNCHANGED <<dist_vars, cluster_vars>>

Next == Cell39 \/ Cell40 \/ Cell41 \/ Cell44 \/ Cell45 \/ Cell48

Spec == Init /\ [][Next]_vars

\* ------------------------------------------------- the clustering cell
RECURSIVE insert_by_label(_, _)
insert_by_label(sorted, item) ==
  IF sorted = <<>> THEN <<item>>
  ELSE IF sorted[Len(sorted)][2] <= item[2] THEN Append(sorted, item)
  ELSE Append(insert_by_label(SubSeq(sorted, 1, Len(sorted) - 1), item), sorted[Len(sorted)])

\* sorted(list(zip(documents, clusters)), key=lambda x: x[1]): a stable sort
RECURSIVE sorted_by_label(_)
sorted_by_label(items) ==
  IF items = <<>> THEN <<>>
  ELSE insert_by_label(sorted_by_label(SubSeq(items, 1, Len(items) - 1)), items[Len(items)])

\* zip(documents, clusters) stops at the shorter of the two
zip(ds, cl) == [k \in 1..Min(Len(ds), Len(cl)) |-> <<ds[k], cl[k]>>]

RECURSIVE max(_)
max(cl) == IF Len(cl) = 1 THEN cl[1]
           ELSE IF cl[Len(cl)] > max(SubSeq(cl, 1, Len(cl) - 1)) THEN cl[Len(cl)]
           ELSE max(SubSeq(cl, 1, Len(cl) - 1))

RECURSIVE grouping_below_max(_, _, _, _)
grouping_below_max(i, top, zp, acc) ==
  IF i < top
  THEN grouping_below_max(i + 1, top, zp,
         Append(acc, SelectSeq(zp, LAMBDA item : item[2] = i)))
  ELSE acc

\* while i <= max(clusters): the items of zipped whose label is i, as list_c
RECURSIVE grouping(_, _, _, _)
grouping(i, top, zp, acc) ==
  IF i <= top
  THEN grouping(i + 1, top, zp,
         Append(acc, SelectSeq(zp, LAMBDA item : item[2] = i)))
  ELSE acc

\* The globals of cell 43 when it ended with the exception exc at a place.
cell43_raised(vs, out, zp, la, exc, at) ==
  [vectors |-> vs, means |-> out.means, clusters |-> out.clusters, zipped |-> zp,
   list_all |-> la, raised |-> [exc |-> exc, at |-> at]]

\* The printing loop reads i[0][1] of every group: IndexError on an empty one.
cell43_printed(vs, out, zp, la) ==
  IF \E i \in 1..Len(la) : la[i] = <<>>
  THEN cell43_raised(vs, out, zp, la, "IndexError", "print")
  ELSE [vectors |-> vs, means |-> out.means, clusters |-> out.clusters, zipped |-> zp,
        list_all |-> la, raised |-> NoException]

cell43_grouped(vs, out, zp) ==
  cell43_printed(vs, out, zp, grouping(0, max(out.clusters), zp, <<>>))

cell43_clustered(vs, out) ==
  IF out.raised # "none"
  THEN cell43_raised(vs, [means |-> means, clusters |-> clusters], zipped, list_all,
                     out.raised, "_centroid")
  ELSE cell43_grouped(vs, out, sorted_by_label(zip(documents, out.clusters)))

NotClustered == [means |-> means, clusters |-> clusters]

\* Cell 43 for the normalized vectors vs (or the error of normalize) and the
\* positions p drawn by the repeat whose means are kept.
cell43(vs, p) ==
  IF \E k \in 1..Len(vs) : vs[k] = ZeroDivision
  THEN cell43_raised(vectors, NotClustered, zipped, list_all, "ZeroDivisionError", "normalize")
  ELSE IF Len(vs) = 0
  THEN cell43_raised(vs, NotClustered, zipped, list_all, "AssertionError", "cluster")
  ELSE IF n_clusters > Len(vs)
  THEN cell43_raised(vs, NotClustered, zipped, list_all, "ValueError", "sample")
  ELSE cell43_clustered(vs, cluster([k \in 1..Len(vs) |-> vs[k].v], p))

\* The samples the clusterer can draw: none when an earlier line raises.
CellSamples(vs) ==
  IF (\E k \in 1..Len(vs) : vs[k] = ZeroDivision) \/ Len(vs) = 0 \/ n_clusters > Len(vs)
  THEN {<<>>}
  ELSE Samples(Len(vs), n_clusters)

\* Part 1: normalize, cluster, group and print.
Cell43 ==
  /\ pc = "cell44"
  /\ cluster_pc = "cell43"
  /\ \E vs \in {[k \in 1..Len(documents) |-> normalize(Raw(context_vector[documents[k]]))]} :
       \E p \in CellSamples(vs) :
          \E out \in {cell43(vs, p)} :
             /\ vectors' = out.vectors
             /\ means' = out.means
             /\ clusters' = out.clusters
             /\ zipped' = out.zipped
             /\ list_all' = out.list_all
             /\ raised' = out.raised
             /\ cluster_pc' = IF out.raised = NoException THEN "done" ELSE "raised"
  /\ UNCHANGED <<d, m, corpus, vocabulary, index_vector, context_vector,
                 train_genres, test_documents, train_documents,
                 context_vector_document, context_vector_genre, docs,
                 print_pairs, min_pairs, correct, incorrect, accuracy, pc,
                 tokens_in, tokens_perm, agg_out, agg_out_perm, agg_pc,
                 dist_vars, n_clusters>>

\* Cells 39 to 43 for any configuration and any number of clusters.
InitCluster ==
  /\ InitCells(1..MaxD, 1..MaxM, MaxVectors)
  /\ n_clusters \in 1..MaxK
  /\ cluster_pc = "cell43"

NextCluster == Cell39 \/ Cell40 \/ Cell41 \/ Cell43

SpecCluster == InitCluster /\ [][NextCluster]_vars

\* ------------------------------------------ the construction loop alone
\* Cells 39 and 40 under any configuration, D < M included.
InitConfig == InitWith(1..MaxD, 1..MaxM)

NextConfig == Cell39 \/ Cell40

SpecConfig == InitConfig /\ [][NextConfig]_vars

\* ------------------------------------------------- the aggregator alone
\* The index vectors the construction loop can produce for dimension n and count k.
IndexVectors(n, k) == {SetOnes(Zeros(n), Slice(p, k)) : p \in Shuffles(n)}

\* The orderings of a token sequence.
Orderings(s) == {[i \in 1..Len(s) |-> s[p[i] + 1]] : p \in Shuffles(Len(s))}

InitAgg ==
  /\ d \in 1..MaxD
  /\ m \in 1..MaxM
  /\ corpus = [genre \in Range(categories) |-> <<>>]
  /\ \E V \in SUBSET Terms :
       /\ vocabulary = V
       /\ index_vector \in [V -> IndexVectors(d, m)]
  /\ context_vector = <<>>
  /\ train_genres = <<>>
  /\ test_documents = <<>>
  /\ train_documents = <<>>
  /\ context_vector_document = <<>>
  /\ context_vector_genre = <<>>
  /\ docs = <<>>
  /\ print_pairs = <<>> /\ min_pairs = <<>>
  /\ correct = 0 /\ incorrect = 0
  /\ accuracy = <<>>
  /\ pc = "off"
  /\ raised = NoException
  /\ tokens_in \in BoundedSeq(Terms, MaxTokens)
  /\ tokens_perm \in Orderings(tokens_in)
  /\ agg_out = <<>> /\ agg_out_perm = <<>>
  /\ agg_pc = "first"
  /\ DistIdle
  /\ ClusterIdle
  /\ n_clusters = 0
  /\ cluster_pc = "off"

\* A context vector of zeros, then the aggregation loop over the tokens.
AggregateTokens ==
  /\ agg_pc = "first"
  /\ agg_out' = aggregate(Zeros(d), tokens_in, index_vector)
  /\ index_vector' = agg_out'.iv
  /\ agg_pc' = "second"
  /\ UNCHANGED <<d, m, corpus, vocabulary, context_vector,
                 train_genres, test_documents, train_documents,
                 context_vector_document, context_vector_genre, docs,
                 print_pairs, min_pairs, correct, incorrect, accuracy, pc,
                 raised, tokens_in, tokens_perm, agg_out_perm>>
  /\ UNCHANGED <<dist_vars, cluster_vars>>

\* The same over the permuted tokens.
AggregatePermuted ==
  /\ agg_pc = "second"
  /\ agg_out_perm' = aggregate(Zeros(d), tokens_perm, index_vector)
  /\ index_vector' = agg_out_perm'.iv
  /\ agg_pc' = "done"
  /\ UNCHANGED <<d, m, corpus, vocabulary, context_vector,
                 train_genres, test_documents, train_documents,
                 context_vector_document, context_vector_genre, docs,
                 print_pairs, min_pairs, correct, incorrect, accuracy, pc,
                 raised, tokens_in, tokens_perm, agg_out>>
  /\ UNCHANGED <<dist_vars, cluster_vars>>

NextAgg == AggregateTokens \/ AggregatePermuted

SpecAgg == InitAgg /\ [][NextAgg]_vars

\* --------------------------------------------------- cosine_dist alone
\* Two vectors of the same dimension, as every pair the notebook compares.
InitDist ==
  /\ d \in 1..MaxD
  /\ m = Sparsity
  /\ corpus = [genre \in Range(categories) |-> <<>>]
  /\ vocabulary = {}
  /\ index_vector = <<>>
  /\ context_vector = <<>>
  /\ train_genres = <<>>
  /\ test_documents = <<>>
  /\ train_documents = <<>>
  /\ context_vector_document = <<>>
  /\ context_vector_genre = <<>>
  /\ docs = <<>>
  /\ print_pairs = <<>> /\ min_pairs = <<>>
  /\ correct = 0 /\ incorrect = 0
  /\ accuracy = <<>>
  /\ pc = "off"
  /\ raised = NoException
  /\ PipelineIdle
  /\ ClusterIdle
  /\ n_clusters = 0
  /\ cluster_pc = "off"
  /\ vec_a \in [1..d -> 0..MaxCount]
  /\ vec_b \in [1..d -> 0..MaxCount]
  /\ dist_ab = <<>> /\ dist_ba = <<>>
  /\ dist_pc = "first"

\* cosine_dist(a, b)
CosineDistAB ==
  /\ dist_pc = "first"
  /\ dist_ab' = cosine_dist(Raw(vec_a), Raw(vec_b))
  /\ dist_pc' = "second"
  /\ UNCHANGED <<d, m, corpus, vocabulary, index_vector, context_vector,
                 train_genres, test_documents, train_documents,
                 context_vector_document, context_vector_genre, docs,
                 print_pairs, min_pairs, correct, incorrect, accuracy, pc,
                 raised, tokens_in, tokens_perm, agg_out, agg_out_perm, agg_pc,
                 vec_a, vec_b, dist_ba, cluster_vars>>

\* cosine_dist(b, a)
CosineDistBA ==
  /\ dist_pc = "second"
  /\ dist_ba' = cosine_dist(Raw(vec_b), Raw(vec_a))
  /\ dist_pc' = "done"
  /\ UNCHANGED <<d, m, corpus, vocabulary, index_vector, context_vector,
                 train_genres, test_documents, train_documents,
                 context_vector_document, context_vector_genre, docs,
                 print_pairs, min_pairs, correct, incorrect, accuracy, pc,
                 raised, tokens_in, tokens_perm, agg_out, agg_out_perm, agg_pc,
                 vec_a, vec_b, dist_ab, cluster_vars>>

NextDist == CosineDistAB \/ CosineDistBA

SpecDist == InitDist /\ [][NextDist]_vars

\* ------------------------------------------------------------ properties
\* The index-vector construction loop has finished.
Built == pc \notin {"off", "cell39", "cell40"}

\* Part 1 aggregation has finished.
Aggregated == pc \in {"cell44", "cell45", "cell48", "done"} \/ (pc = "raised" /\ raised.at # "index_vector[word]")

\* The document and genre vectors of part 2 are trained.
Trained == pc \in {"cell48", "done"} \/ (pc = "raised" /\ raised.at # "index_vector[word]")

\* pairwise_distance has returned or raised.
Called == pc = "done" \/ (pc = "raised" /\ raised.at # "index_vector[word]")

Ones(v) == {i \in DOMAIN v : v[i] = 1}

Occurrences(t, s) == Cardinality({i \in DOMAIN s : s[i] = t})

RECURSIVE WeightedSum(_, _, _)
WeightedSum(S, s, i) ==
  IF S = {} THEN 0
  ELSE LET t == CHOOSE x \in S : TRUE
       IN Occurrences(t, s) * index_vector[t][i] + WeightedSum(S \ {t}, s, i)

\* The sum, over the terms, of the term's occurrences in s times its index vector.
SumOfIndexVectors(s) == [i \in 1..d |-> WeightedSum(DOMAIN index_vector, s, i)]

TestOf(genre) == SelectSeq(test_documents, LAMBDA doc : gold(doc) = genre)

IsZero(v) == \A i \in DOMAIN v : v[i] = 0

\* The distance the classifier computes for a test document and a genre.
Distance(doc, genre) ==
  cosine_dist(normalize(Raw(context_vector_document[doc])),
              normalize(Raw(context_vector_genre[genre])))

\* C1: once the construction loop has finished, every term of the vocabulary
\* has an index vector of length D with exactly M entries 1 and every other
\* entry 0, whatever the shuffles gave.
C1_IndexVectorShape ==
  Built =>
     /\ DOMAIN index_vector = vocabulary
     /\ \A word \in vocabulary :
          /\ Len(index_vector[word]) = d
          /\ \A i \in 1..d : index_vector[word][i] \in {0, 1}
          /\ Cardinality(Ones(index_vector[word])) = m

C1_Witness ==
  /\ Built
  /\ \E w1, w2 \in vocabulary : Ones(index_vector[w1]) # Ones(index_vector[w2])

\* C2: after aggregation every document's context vector (part 1 and the
\* test documents of part 2) and every genre's context vector is the
\* elementwise sum of the index vectors of its tokens, each counted as often
\* as it occurs.
C2_ContextIsSum ==
  /\ Aggregated =>
       \A doc \in Range(documents) :
          context_vector[doc] = SumOfIndexVectors(lowered(words(doc)))
  /\ Trained =>
       /\ \A doc \in Range(test_documents) :
             context_vector_document[doc] = SumOfIndexVectors(lowered(words(doc)))
       /\ \A genre \in Range(train_genres) :
             context_vector_genre[genre] =
               SumOfIndexVectors(lowered(words_of(train_documents[genre])))

C2_Witness ==
  /\ Trained
  /\ \E genre \in Range(train_genres) :
       /\ Occurrences("a", lowered(words_of(train_documents[genre]))) = 2
       /\ \E i \in 1..d : context_vector_genre[genre][i] = 2
  /\ \E genre \in Range(train_genres) :
       Occurrences("b", lowered(words_of(train_documents[genre]))) = 1
  /\ index_vector["a"] # index_vector["b"]
  /\ \E doc \in Range(test_documents) : ~IsZero(context_vector_document[doc])

\* C3: aggregating a token sequence and any permutation of it from zero
\* vectors over the same index vectors gives the same context vector.
C3_OrderIndependent ==
  (agg_pc = "done" /\ agg_out.raised = "none" /\ agg_out_perm.raised = "none") =>
     agg_out.vec = agg_out_perm.vec

C3_Witness ==
  /\ agg_pc = "done" /\ agg_out.raised = "none" /\ agg_out_perm.raised = "none"
  /\ tokens_in # tokens_perm
  /\ Len(tokens_in) = 3
  /\ index_vector["a"] # index_vector["b"]

\* C4: for every document passed to pairwise_distance the pair put in
\* min_pairs names a genre of least cosine distance to the document among
\* the genres passed in, and of several such genres the first in genres.
C4_ArgMinFirst ==
  (Called /\ raised.at \notin {"normalize", "min"}) =>
     /\ Len(min_pairs) = Len(docs)
     /\ \A k \in 1..Len(docs) :
          /\ min_pairs[k][1] = docs[k]
          /\ \E j \in 1..Len(train_genres) :
               /\ min_pairs[k][2] = train_genres[j]
               /\ min_pairs[k][3] = Distance(docs[k], train_genres[j])
               /\ \A i \in 1..Len(train_genres) :
                    /\ DistLeq(min_pairs[k][3], Distance(docs[k], train_genres[i]))
                    /\ i < j => DistLess(min_pairs[k][3], Distance(docs[k], train_genres[i]))

C4_Witness ==
  /\ pc = "done" /\ docs # <<>>
  /\ context_vector_genre[train_genres[1]] # context_vector_genre[train_genres[2]]
  /\ Distance(docs[1], train_genres[1]) = Distance(docs[1], train_genres[2])
  /\ min_pairs[1][2] = train_genres[1]

\* C5: for every genre the test subset is the first int(0.3 * n) documents
\* of its list and the training subset is the rest of the list, so every
\* document of the genre is in exactly one of the two.
C5_SplitCoversGenre ==
  Trained =>
     \A genre \in Range(train_genres) :
        LET n == Len(fileids(genre))
        IN /\ TestOf(genre) = Prefix(fileids(genre), (3 * n) \div 10)
           /\ train_documents[genre] = Suffix(fileids(genre), (3 * n) \div 10)
           /\ TestOf(genre) \o train_documents[genre] = fileids(genre)

\* C6: for every genre the documents that train its context vector and its
\* documents in test_documents are disjoint.
C6_TrainTestDisjoint ==
  Trained =>
     \A genre \in Range(train_genres) :
        Range(train_documents[genre]) \cap Range(TestOf(genre)) = {}

C6_Witness ==
  /\ Trained
  /\ \E genre \in Range(train_genres) :
       /\ TestOf(genre) # <<>>
       /\ train_documents[genre] # <<>>

\* C7: for any docs passed to pairwise_distance the reported accuracy is the
\* number of documents of docs predicted as their true genre over the number
\* of documents classified, and correct + incorrect is that number.
C7_AccuracyOverDocs ==
  pc = "done" =>
     /\ correct + incorrect = Len(docs)
     /\ correct = Cardinality({k \in 1..Len(docs) : min_pairs[k][2] = gold(docs[k])})
     /\ accuracy.num * Len(docs) = correct * accuracy.den

\* C8: an all-zero context vector makes normalize and cosine_dist raise
\* ZeroDivisionError rather than return a value, and pairwise_distance on a
\* document with such a vector ends in that error with no distance recorded
\* for the document.
C8_ZeroVectorRaises ==
  /\ Aggregated =>
       \A doc \in Range(documents) :
          IsZero(context_vector[doc]) =>
             /\ normalize(Raw(context_vector[doc])) = ZeroDivision
             /\ cosine_dist(Raw(context_vector[doc]), Raw(context_vector[doc])) = ZeroDivision
  /\ Called =>
       \A k \in 1..Len(docs) :
          IsZero(context_vector_document[docs[k]]) =>
             /\ normalize(Raw(context_vector_document[docs[k]])) = ZeroDivision
             /\ pc = "raised" /\ raised = [exc |-> "ZeroDivisionError", at |-> "normalize"]
             /\ \A j \in 1..Len(print_pairs) : print_pairs[j][1] # docs[k]
             /\ min_pairs = <<>> /\ accuracy = <<>>

C8_Witness ==
  /\ Called
  /\ \E k \in 1..Len(docs) : IsZero(context_vector_document[docs[k]])
  /\ \A genre \in Range(train_genres) : ~IsZero(context_vector_genre[genre])

\* C9: with D < M the construction of the index vectors fails fast with an
\* out-of-range error and produces no index vector.
C9_FailFastWhenDLessThanM ==
  (d < m /\ Built /\ vocabulary # {}) =>
     /\ raised.exc # "none"
     /\ DOMAIN index_vector = {}

\* C10: aggregating a token sequence with a token the index-vector mapping
\* lacks raises a lookup failure; it does not complete with a vector.
C10_MissingTokenRaises ==
  (agg_pc # "first" /\ \E i \in DOMAIN tokens_in : tokens_in[i] \notin DOMAIN index_vector) =>
     agg_out.raised = "KeyError"

C10_Witness ==
  /\ agg_pc # "first"
  /\ Len(tokens_in) >= 2
  /\ tokens_in[1] \in DOMAIN index_vector
  /\ tokens_in[Len(tokens_in)] \notin DOMAIN index_vector
  /\ agg_out.raised = "KeyError"
  /\ ~IsZero(agg_out.vec)

\* Every token of the non-empty sequence s is the term t.
AllTokens(s, t) == s # <<>> /\ \A i \in DOMAIN s : s[i] = t

\* A cosine distance of 0: a squared cosine of 1.
ZeroDistance == [num |-> 1, den |-> 1]

\* C13: a classified document whose tokens are all "cat" is predicted as the
\* genre X trained only on "cat" and not as the genre Y trained only on
\* "dog", and its distance to X is 0 and below its distance to Y, whenever
\* the index vectors of the two terms differ (near-orthogonal ones do).
C13_CatDocumentIsGenreOfCats ==
  pc = "done" =>
     \A k \in 1..Len(docs) : \A X, Y \in Range(train_genres) : \A cat, dog \in vocabulary :
        (/\ cat # dog /\ X # Y
         /\ AllTokens(lowered(words(docs[k])), cat)
         /\ AllTokens(lowered(words_of(train_documents[X])), cat)
         /\ AllTokens(lowered(words_of(train_documents[Y])), dog)
         /\ index_vector[cat] # index_vector[dog])
        => /\ min_pairs[k][2] = X
           /\ min_pairs[k][3] = ZeroDistance
           /\ Distance(docs[k], X) = ZeroDistance
           /\ DistLess(Distance(docs[k], X), Distance(docs[k], Y))

C13_Witness ==
  /\ pc = "done"
  /\ \E k \in 1..Len(docs) : \E cat, dog \in vocabulary :
       /\ cat # dog
       /\ AllTokens(lowered(words(docs[k])), cat)
       /\ AllTokens(lowered(words_of(train_documents[train_genres[2]])), cat)
       /\ Len(words_of(train_documents[train_genres[2]])) = 2
       /\ AllTokens(lowered(words_of(train_documents[train_genres[1]])), dog)
       /\ index_vector[cat] # index_vector[dog]
       /\ min_pairs[k][2] = train_genres[2]

\* clusterer.cluster has returned its labels and the grouping loop has run.
Clustered == cluster_pc = "done" \/ (cluster_pc = "raised" /\ raised.at = "print")

\* C14: the clustering step gives one integer label per document, in the
\* order of documents (label k is that of the mean nearest to the vector of
\* document k, the first of several), and every label is in [0, K) for the
\* K = n_clusters asked for.
C14_OneLabelPerDocument ==
  Clustered =>
     /\ Len(clusters) = Len(documents)
     /\ Len(vectors) = Len(documents)
     /\ Len(means) = n_clusters
     /\ \A k \in 1..Len(documents) :
          /\ clusters[k] \in 0..(n_clusters - 1)
          /\ vectors[k] = normalize(Raw(context_vector[documents[k]]))
          /\ \A j \in 1..n_clusters :
               /\ ~Nearer(vectors[k].v, means[j], means[clusters[k] + 1])
               /\ j < clusters[k] + 1 => Nearer(vectors[k].v, means[clusters[k] + 1], means[j])

C14_Witness ==
  /\ cluster_pc = "done"
  /\ Len(documents) = 3 /\ n_clusters = 2
  /\ clusters[1] = 1 /\ clusters[2] = 0
  /\ \E j \in 1..2 : means[j].n = 2

\* C15 as claimed: when K equals the number of documents, no two documents
\* share a label.
C15_SingletonClusters ==
  (Clustered /\ n_clusters = Len(documents)) =>
     \A k, l \in 1..Len(documents) : k # l => clusters[k] # clusters[l]

\* C15 as amended: when K equals the number of documents and no two
\* documents have the same normalized vector, no two documents share a label.
C15_SingletonClustersOfDistinctVectors ==
  (/\ Clustered /\ n_clusters = Len(documents)
   /\ \A k, l \in 1..Len(documents) : k # l => vectors[k] # vectors[l]) =>
     \A k, l \in 1..Len(documents) : k # l => clusters[k] # clusters[l]

C15_Witness ==
  /\ cluster_pc = "done"
  /\ n_clusters = Len(documents) /\ Len(documents) >= 2
  /\ \A k, l \in 1..Len(documents) : k # l => vectors[k] # vectors[l]
  /\ clusters[1] = 1 /\ clusters[2] = 0

\* The positions <<i, j>> of list_all that hold the document doc.
PlacesOf(doc) ==
  {ij \in (1..Len(list_all)) \X (1..Len(documents)) :
     ij[2] <= Len(list_all[ij[1]]) /\ list_all[ij[1]][ij[2]][1] = doc}

\* C17: after the grouping loop list_all holds max(clusters) + 1 groups,
\* group i holds exactly the (document, label) pairs whose label is i, and
\* every document is in exactly one group, once.
C17_GroupsByLabel ==
  Clustered =>
     /\ Len(list_all) = max(clusters) + 1
     /\ \A i \in 1..Len(list_all) :
          Range(list_all[i]) =
            {<<documents[k], clusters[k]>> : k \in {x \in 1..Len(documents) : clusters[x] = i - 1}}
     /\ \A k \in 1..Len(documents) : Cardinality(PlacesOf(documents[k])) = 1

C17_Witness ==
  /\ Clustered
  /\ Len(list_all) >= 2
  /\ Len(list_all[1]) = 2
  /\ list_all[Len(list_all)] # <<>>
  /\ clusters[1] # 0

\* C16: once the construction loop has finished no step changes an index
\* vector: not the calls of add_vector of the document and genre
\* aggregation, however often a term is added and to however many context
\* vectors, nor normalize, cosine_dist and pairwise_distance.
C16_IndexVectorsKept == [][Built => index_vector' = index_vector]_vars

C16_Witness ==
  /\ pc = "done"
  /\ \E t \in vocabulary :
       /\ \E doc \in Range(documents) : Occurrences(t, lowered(words(doc))) = 1
       /\ \E doc \in Range(test_documents) : Occurrences(t, lowered(words(doc))) = 1
       /\ \E genre \in Range(train_genres) :
            /\ Occurrences(t, lowered(words_of(train_documents[genre]))) = 2
            /\ \E i \in 1..d : context_vector_genre[genre][i] = 2
       /\ \A i \in 1..d : index_vector[t][i] \in {0, 1}
       /\ Cardinality(Ones(index_vector[t])) = m

\* C12: for any two non-zero vectors a and b, cosine_dist(a, b) equals
\* cosine_dist(b, a).
C12_CosineDistSymmetric ==
  (dist_pc = "done" /\ ~IsZero(vec_a) /\ ~IsZero(vec_b)) => dist_ab = dist_ba

C12_Witness ==
  /\ dist_pc = "done" /\ ~IsZero(vec_a) /\ ~IsZero(vec_b)
  /\ SumSq(vec_a) # SumSq(vec_b)
  /\ dist_ab # ZeroDivision
  /\ dist_ab.num # 0 /\ dist_ab.num # dist_ab.den
  /\ dist_ab = dist_ba
====
